---- MODULE Spec2Model ----
(***************************************************************************)
(* The git-event-to-issue-tracker relay of Scrum-master-Automation:        *)
(* post-commit-hook.sh (the post-commit variant) and git-hook.sh (the push *)
(* variant).  One behaviour is one invocation of one of the two scripts in *)
(* one repository state, against one tracker endpoint.                     *)
(*                                                                         *)
(* Text is modelled as sequences of one-character strings, a multi-line    *)
(* text as a sequence of lines.                                            *)
(***************************************************************************)
EXTENDS Integers, Sequences, FiniteSets, TLC

\* ------------------------------------------------------------------ bounds

\* Longest generated branch name.
MaxLen == 3
\* Most invocations that follow one another in one behaviour.
MaxRuns == 2
\* createTicket requests that may be pending at once.
MaxInFlight == 2

\* ------------------------------------------------------------- characters

Upper ==
    {"A", "B", "C", "D", "E", "F", "G", "H", "I", "J", "K", "L", "M",
     "N", "O", "P", "Q", "R", "S", "T", "U", "V", "W", "X", "Y", "Z"}

Digit == {"0", "1", "2", "3", "4", "5", "6", "7", "8", "9"}

DigitValue(c) ==
    CASE c = "0" -> 0 [] c = "1" -> 1 [] c = "2" -> 2 [] c = "3" -> 3
      [] c = "4" -> 4 [] c = "5" -> 5 [] c = "6" -> 6 [] c = "7" -> 7
      [] c = "8" -> 8 [] c = "9" -> 9

\* All texts over alphabet a of length lo..hi.
TextsOver(a, lo, hi) == UNION {[1..n -> a] : n \in lo..hi}

\* ------------------------------------------------- grep -oE (both scripts)

\* An extended regular expression is a sequence of atoms.  The atoms that
\* the two scripts' patterns are made of:
\*   [kind |-> "lit", c |-> ch]   the ordinary character ch
\*   [kind |-> "any", c |-> "."]  an unescaped "."
\*   [kind |-> "upper+", ...]     [A-Z]+
\*   [kind |-> "digit+", ...]     [0-9]+
Lit(ch) == [kind |-> "lit", c |-> ch]
AnyChar == [kind |-> "any", c |-> "."]
UpperPlus == [kind |-> "upper+", c |-> ""]
DigitPlus == [kind |-> "digit+", c |-> ""]

\* A text interpolated into a pattern is read as a pattern: "." is the
\* wildcard, every other character of the modelled alphabet is itself.
AsPattern(prefix) ==
    [i \in 1..Len(prefix) |-> IF prefix[i] = "." THEN AnyChar ELSE Lit(prefix[i])]

\* Positions p >= from such that s[from..p-1] is a non-empty run of cls.
RunEnds(cls, s, from) ==
    {p \in (from + 1)..(Len(s) + 1) : \A q \in from..(p - 1) : s[q] \in cls}

\* Positions just after a match of the single atom a that starts at from.
AtomEnds(a, s, from) ==
    CASE a.kind = "lit" ->
           IF from <= Len(s) /\ s[from] = a.c THEN {from + 1} ELSE {}
      [] a.kind = "any" ->
           IF from <= Len(s) THEN {from + 1} ELSE {}
      [] a.kind = "upper+" -> RunEnds(Upper, s, from)
      [] a.kind = "digit+" -> RunEnds(Digit, s, from)

\* Positions just after a match of atoms k.. of pat that starts at from.
RECURSIVE MatchEnds(_, _, _, _)
MatchEnds(pat, k, s, from) ==
    IF k > Len(pat) THEN {from}
    ELSE UNION {MatchEnds(pat, k + 1, s, p) : p \in AtomEnds(pat[k], s, from)}

Max(S) == CHOOSE x \in S : \A y \in S : y <= x

\* grep -o: the non-overlapping matches, left to right, each the longest at
\* the leftmost position where one starts; one output line per match.
RECURSIVE GrepO(_, _, _)
GrepO(pat, s, from) ==
    IF from > Len(s) THEN <<>>
    ELSE LET ends == MatchEnds(pat, 1, s, from) \ {from}
         IN  IF ends = {} THEN GrepO(pat, s, from + 1)
             ELSE <<SubSeq(s, from, Max(ends) - 1)>> \o GrepO(pat, s, Max(ends))

\* ------------------------------------------------------------ the inputs

\* The detached-HEAD answer of `git rev-parse --abbrev-ref HEAD`.
DetachedHead == <<"H", "E", "A", "D">>

\* Branch names of the documentation and of the scripts' comments.
SampleBranches ==
    {<<"H", "E", "A", "D">>,
     <<"c", "h", "o", "r", "e", "/", "c", "l", "e", "a", "n", "u", "p">>,
     <<"S", "C", "R", "U", "M", "-", "2", "5">>,
     <<"f", "e", "a", "t", "u", "r", "e", "/", "S", "C", "R", "U", "M", "-", "2", "5", "-", "f", "i", "x", "-", "b", "u", "g">>,
     <<"f", "e", "a", "t", "u", "r", "e", "/", "S", "C", "R", "U", "M", "-", "2", "5", "-", "f", "i", "x">>,
     <<"S", "C", "R", "U", "M", "-", "1", "-", "a", "n", "d", "-", "S", "C", "R", "U", "M", "-", "2">>,
     <<"f", "e", "a", "t", "u", "r", "e", "/", "A", "B", "C", "-", "7">>,
     <<"s", "c", "r", "u", "m", "-", "2", "5">>,
     <<"S", "C", "R", "U", "M", "-">>,
     <<"b", "u", "g", "f", "i", "x", "/", "S", "C", "R", "U", "M", "X", "-", "9">>,
     <<"S", "X", "-", "7">>,
     <<"S", "C", "R", "U", "M", "-", "1", "\"", "x">>}

BranchAlphabet == {"S", "s", "-", "1", "/"}

\* What git accepts as a branch name, as far as the alphabet goes: not
\* empty, no leading "-", no leading or trailing "/", no "//".
IsRefName(b) ==
    /\ Len(b) >= 1
    /\ b[1] \notin {"-", "/"}
    /\ b[Len(b)] # "/"
    /\ \A i \in 1..(Len(b) - 1) : ~(b[i] = "/" /\ b[i + 1] = "/")

Branches ==
    SampleBranches \cup {b \in TextsOver(BranchAlphabet, 1, MaxLen) : IsRefName(b)}

\* Values of the environment variable SCRUM_PROJECT_KEY; <<>> is unset (or
\* set to the empty text, which ${VAR:-default} treats alike).
ProjectKeyEnv == {<<>>, <<"S">>, <<"S", ".">>}

\* Values of the environment variable SCRUM_API_URL; "" is unset.
ApiUrlEnv == {"", "https://tracker.example/api/v1"}

\* What git is in the middle of, besides a merge, and the state file or
\* directory under .git that each leaves:
\*   "am"            git am                      .git/rebase-apply/applying
\*   "rebase-apply"  git rebase --apply          .git/rebase-apply/rebasing
\*   "rebase-merge"  git rebase (merge backend,  .git/rebase-merge/
\*                   interactive or not)
GitOps == {"none", "am", "rebase-apply", "rebase-merge"}

Scripts == {"post-commit-hook.sh", "git-hook.sh"}

\* HTTP status lines a tracker may answer with.
Statuses == {<<"2", "0", "0">>, <<"2", "0", "1">>, <<"5", "0", "0">>}

\* Response bodies, as lines: an empty body, and a two-line body whose
\* first line reads like a status.
Bodies == {<< <<>> >>, << <<"2", "0", "0">>, <<"o", "k">> >>}

\* ------------------------------------------------------------------ state

VARIABLES
    script,             \* which of the two scripts runs
    BRANCH_NAME,        \* output of git rev-parse --abbrev-ref HEAD
    MERGE_HEAD,         \* the file .git/MERGE_HEAD exists
    gitOp,              \* element of GitOps
    SCRUM_PROJECT_KEY,  \* environment
    SCRUM_API_URL,      \* environment
    pc,                 \* position of the script
    JIRA_KEY,           \* output lines of grep -oE
    requests,           \* the HTTP requests issued so far
    elapsed,            \* seconds since curl started
    httpStatus,         \* status line received by curl, <<>> if none yet
    RESPONSE,           \* output lines of curl as captured by $(...)
    curlExit,           \* exit status of curl
    stdout,             \* lines the script has printed
    exitStatus,         \* <<>> while running, <<n>> after exit n
    history,            \* the requests of each earlier invocation
    me,                 \* which invocation the variables above belong to
    parked,             \* the other invocation's variables while it is
                        \* not the one running
    arrived,            \* the invocations whose connection the tracker
                        \* accepted, in the order it accepted them
    \* the front-end REST client (lib/api)
    apiCall,            \* the call in progress: function, stage, promise
    \* the chat page (Chat.tsx)
    text,               \* useState('') of the message box
    isTyping,           \* useState(false)
    sends,              \* the bot requests that have not settled
    lastSend,           \* the last settled send, before and after its
                        \* callback
    \* the filtered Jira page
    searchParams,       \* the query string, a sequence of <<name, value>>
    appliedFilters,     \* useState of the applied filters
    filterProject,      \* the three form filters
    filterAssignee,
    filterStatus,
    lastFilter,         \* the last filter action: mount, edit, apply, clear
    title,              \* the create form
    description,
    selectedTicket,
    creates,            \* the createTicket requests that have not settled
    lastCreate,         \* the last settled creation, before and after its
                        \* callback
    \* the hook installer (setup-git-hooks.sh)
    fs,                 \* the files the installer tests and writes
    fs0,                \* the same files when the installer started
    setupPc,            \* position of the installer
    setupOut,           \* lines the installer has printed
    setupExit           \* <<>> while running, <<n>> after exit n

inputs == <<script, BRANCH_NAME, MERGE_HEAD, gitOp, SCRUM_PROJECT_KEY, SCRUM_API_URL>>
curlVars == <<requests, elapsed, httpStatus, RESPONSE, curlExit>>
\* What lies outside the invocation that is running.
chat == <<text, isTyping, sends, lastSend>>
jira == <<searchParams, appliedFilters, filterProject, filterAssignee, filterStatus,
          lastFilter, title, description, selectedTicket, creates, lastCreate>>
installer == <<fs, fs0, setupPc, setupOut, setupExit>>
\* The programs of the repository other than the two hook scripts.
others == <<apiCall, chat, jira, installer>>
outside == <<history, me, parked, arrived, others>>
vars == <<inputs, pc, JIRA_KEY, curlVars, stdout, exitStatus, outside>>

\* ---------------------------------------------------------- configuration

PostCommit == script = "post-commit-hook.sh"

DefaultApiBaseUrl == "http://localhost:8000/api/v1"
\* Mutant: another default prefix.
DefaultProjectKey_Other == <<"A", "B", "C">>

DefaultProjectKey == <<"S", "C", "R", "U", "M">>

\* ${SCRUM_API_URL:-...} in post-commit-hook.sh; a fixed text in git-hook.sh.
API_BASE_URL ==
    IF PostCommit /\ SCRUM_API_URL # "" THEN SCRUM_API_URL ELSE DefaultApiBaseUrl

\* ${SCRUM_PROJECT_KEY:-SCRUM}; git-hook.sh has no such setting.
PROJECT_KEY ==
    IF SCRUM_PROJECT_KEY # <<>> THEN SCRUM_PROJECT_KEY ELSE DefaultProjectKey

GIT_ACTION == IF PostCommit THEN "commit" ELSE "push"

\* --connect-timeout 5 --max-time 10, given to curl by post-commit-hook.sh
\* only.
ConnectTimeout == 5
MaxTime == 10
HasTimeLimits == PostCommit

\* Mutant: git-hook.sh's pattern without its "-[0-9]+" part.
KeyPattern_PrefixOnly ==
    IF PostCommit
    THEN AsPattern(PROJECT_KEY) \o <<Lit("-"), DigitPlus>>
    ELSE <<UpperPlus>>

\* The pattern handed to grep -oE: "${PROJECT_KEY}-[0-9]+" with the value
\* of PROJECT_KEY interpolated, or '[A-Z]+-[0-9]+'.
KeyPattern ==
    IF PostCommit
    THEN AsPattern(PROJECT_KEY) \o <<Lit("-"), DigitPlus>>
    ELSE <<UpperPlus, Lit("-"), DigitPlus>>

\* JIRA_KEY=$(echo "$BRANCH_NAME" | grep -oE ...): grep's output lines.
ExtractKey(branch) == GrepO(KeyPattern, branch, 1)

\* Mutant: -n in place of -z.
KeyMissing_Inverted(key) == key # <<>>

\* Mutant: an invocation that follows another one on the branch takes the
\* notification as sent already.
KeyMissing_Deduplicating(key) == key = <<>> \/ history # <<>>

\* [ -z "$JIRA_KEY" ]
KeyMissing(key) == key = <<>>

\* The test of post-commit-hook.sh line 14.
ApplyingFile == gitOp = "am"
\* Mutant: the test without its MERGE_HEAD part.
SkipState_NoMerge(branch) ==
    \/ branch = DetachedHead
    \/ gitOp = "am"


SkipState(branch) ==
    \/ branch = DetachedHead
    \/ MERGE_HEAD
    \/ ApplyingFile

\* BranchContext of the documentation.
in_merge == MERGE_HEAD
in_rebase == gitOp \in {"rebase-apply", "rebase-merge"}

\* --------------------------------------------------------- text utilities

Last(lines) == lines[Len(lines)]
Front(lines) == SubSeq(lines, 1, Len(lines) - 1)

\* $(...) drops the trailing newlines of what it captures.
RECURSIVE Capture(_)
Capture(lines) ==
    IF Len(lines) > 1 /\ Last(lines) = <<>> THEN Capture(Front(lines)) ELSE lines

\* Mutant: head -n1 in place of tail -n1.
TailN1_First(lines) == lines[1]

\* tail -n1 and head -n -1 of echo "$RESPONSE"
TailN1(lines) == Last(lines)
HeadAllButLast(lines) == Front(lines)

IsNumeral(t) == Len(t) >= 1 /\ \A i \in 1..Len(t) : t[i] \in Digit

RECURSIVE NumeralValue(_)
NumeralValue(t) ==
    IF Len(t) = 0 THEN 0
    ELSE 10 * NumeralValue(Front(t)) + DigitValue(Last(t))

\* [ "$a" -eq n ]: true for an integer text of value n; anything else is
\* false (a text that is no integer makes the test fail with an error).
TestEq(t, n) == IsNumeral(t) /\ NumeralValue(t) = n

Say(msg, key, txt) == [msg |-> msg, key |-> key, text |-> txt]

\* ------------------------------------------------------------------- Init

\* The variables of an invocation that has not begun.
FreshContext(id) ==
    [id |-> id, pc |-> "start", JIRA_KEY |-> <<>>, requests |-> <<>>,
     elapsed |-> 0, httpStatus |-> <<>>, RESPONSE |-> <<>>, curlExit |-> 0,
     stdout |-> <<>>, exitStatus |-> <<>>]

\* ------------------------------------------- the other programs, at rest

\* JSON values as far as the client looks into them: the kind of the value,
\* the elements of an array, and for an object whether it has a member
\* "items" and whether that member is an array (elems are then its elements).
JsonNull == [kind |-> "null", elems |-> <<>>, items |-> "absent"]
JsonArray(elems) == [kind |-> "array", elems |-> elems, items |-> "absent"]
JsonObject(items, elems) == [kind |-> "object", elems |-> elems, items |-> items]
JsonString == [kind |-> "string", elems |-> <<>>, items |-> "absent"]
\* What axios rejects with.
AxiosError == [kind |-> "error", elems |-> <<>>, items |-> "absent"]

\* A promise: pending, fulfilled with a value or rejected with a reason.
Pending == [state |-> "pending", value |-> JsonNull]
Fulfilled(v) == [state |-> "fulfilled", value |-> v]
Rejected(v) == [state |-> "rejected", value |-> v]

\* No function of the client has been called.
IdleCall == [fn |-> "none", stage |-> "idle", http |-> "none", promise |-> Pending]

ClientIdle == apiCall = IdleCall

\* Number(s) of JavaScript on the texts used here: a number or NaN.
Num(n) == [nan |-> FALSE, n |-> n]
NaN == [nan |-> TRUE, n |-> 0]

NoSettled == [http |-> "none", before |-> <<>>, after |-> <<>>]

\* Chat.tsx lines 9-10: the state of the chat page when it mounts.  The text
\* of the message box is a sequence of characters.
ChatMounted ==
    /\ text = <<>>
    /\ isTyping = FALSE
    /\ sends = <<>>
    /\ lastSend = NoSettled

\* searchParams.get(name): the first value of the parameter, <<>> for null.
Get(query, name) ==
    LET at == {i \in 1..Len(query) : query[i][1] = name}
    IN IF at = {} THEN <<>>
       ELSE <<query[CHOOSE i \in at : \A j \in at : i <= j][2]>>

\* searchParams.get(name) || fallback
GetOr(query, name, fallback) ==
    IF Get(query, name) = <<>> \/ Get(query, name) = <<"">> THEN fallback
    ELSE Get(query, name)[1]

\* Number(s) and String(x) on the texts of the limit parameter used here.
ToNumber(s) ==
    CASE s = "0" -> Num(0)
      [] s = "10" -> Num(10)
      [] s = "25" -> Num(25)
      [] OTHER -> NaN

StringOf(x) ==
    IF x.nan THEN "NaN"
    ELSE CASE x.n = 0 -> "0"
           [] x.n = 10 -> "10"
           [] x.n = 25 -> "25"

\* A number in a condition: 0 and NaN count as false.
Truthy(x) == ~x.nan /\ x.n # 0

NoTicket == JsonNull
\* A ticket: an object, elems holding its jira_key.
Ticket(k) == JsonObject("absent", <<k>>)

\* Lines 12-23 and 51-56 of the Jira page: its state when it mounts, the
\* filters read from the query string.  The title is a sequence of
\* characters, the default title standing as one.
JiraMounted ==
    /\ appliedFilters =
          [project_key |-> GetOr(searchParams, "project_key", ""),
           assignee |-> GetOr(searchParams, "assignee", ""),
           status |-> GetOr(searchParams, "status", ""),
           limit |-> ToNumber(GetOr(searchParams, "limit", "25"))]
    /\ filterProject = appliedFilters.project_key
    /\ filterAssignee = appliedFilters.assignee
    /\ filterStatus = appliedFilters.status
    /\ lastFilter = "mount"
    /\ title = <<"New Task">>
    /\ description = ""
    /\ selectedTicket = NoTicket
    /\ creates = <<>>
    /\ lastCreate = NoSettled

\* The files of a repository in which no hook is installed, with
\* post-commit-hook.sh in the current directory.
PlainRepository ==
    [dotGit |-> "dir", hooks |-> "dir", hook |-> "absent", mode |-> "none",
     owned |-> TRUE, source |-> TRUE, writable |-> TRUE]

\* setup-git-hooks.sh before its first line.
InstallerAtStart ==
    /\ setupPc = "start"
    /\ setupOut = <<>>
    /\ setupExit = <<>>
    /\ fs0 = fs

Init ==
    /\ ClientIdle
    /\ ChatMounted
    /\ searchParams = <<>>
    /\ JiraMounted
    /\ fs = PlainRepository
    /\ InstallerAtStart
    /\ script \in Scripts
    /\ BRANCH_NAME \in Branches
    /\ MERGE_HEAD \in BOOLEAN
    /\ gitOp \in GitOps
    /\ SCRUM_PROJECT_KEY \in ProjectKeyEnv
    /\ SCRUM_API_URL \in ApiUrlEnv
    /\ pc = "start"
    /\ JIRA_KEY = <<>>
    /\ requests = <<>>
    /\ elapsed = 0
    /\ httpStatus = <<>>
    /\ RESPONSE = <<>>
    /\ curlExit = 0
    /\ stdout = <<>>
    /\ exitStatus = <<>>
    /\ history = <<>>
    /\ me = 1
    /\ parked = FreshContext(2)
    /\ arrived = <<>>

\* Mutant: the script ends with the status of curl instead of n.
Exit_CurlStatus(n) ==
    /\ pc' = "done"
    /\ exitStatus' = <<curlExit>>


Exit(n) ==
    /\ pc' = "done"
    /\ exitStatus' = <<n>>

\* --------------------------------------------------- post-commit-hook.sh

\* Lines 13-16.
PCSkip ==
    /\ PostCommit /\ pc = "start"
    /\ SkipState(BRANCH_NAME)
    /\ Exit(0)
    /\ UNCHANGED <<inputs, outside, JIRA_KEY, curlVars, stdout>>

\* Line 20.
PCExtract ==
    /\ PostCommit /\ pc = "start"
    /\ ~SkipState(BRANCH_NAME)
    /\ JIRA_KEY' = ExtractKey(BRANCH_NAME)
    /\ pc' = "keycheck"
    /\ UNCHANGED <<inputs, outside, curlVars, stdout, exitStatus>>

\* Mutant: the skip for want of a key says so.
PCNoKey_Logging ==
    /\ PostCommit /\ pc = "keycheck"
    /\ KeyMissing(JIRA_KEY)
    /\ stdout' = Append(stdout, Say("nokey", <<>>, <<BRANCH_NAME>>))
    /\ Exit(0)
    /\ UNCHANGED <<inputs, outside, JIRA_KEY, curlVars>>

\* Lines 22-25.
PCNoKey ==
    /\ PostCommit /\ pc = "keycheck"
    /\ KeyMissing(JIRA_KEY)
    /\ Exit(0)
    /\ UNCHANGED <<inputs, outside, JIRA_KEY, curlVars, stdout>>

\* The request curl is told to make, lines 30-34 and 33-36.
\* The -d text: the fixed parts of the JSON document as written in the
\* script, each one element, with the characters of $BRANCH_NAME and the
\* action put between them as they are.
Body ==
    <<"{\"branch_name\": \"">> \o BRANCH_NAME
        \o <<"\", \"git_action\": \"", GIT_ACTION, "\"}">>

Request ==
    [method |-> "POST",
     url |-> <<API_BASE_URL, "/git-hooks/update-from-branch">>,
     header |-> "Content-Type: application/json",
     body |-> Body]

StartCurl ==
    /\ requests' = Append(requests, Request)
    /\ elapsed' = 0
    /\ httpStatus' = <<>>
    /\ pc' = "connecting"
    /\ UNCHANGED <<RESPONSE, curlExit>>

\* Lines 27-34: the announcement, then curl starts.
PCCallApi ==
    /\ PostCommit /\ pc = "keycheck"
    /\ ~KeyMissing(JIRA_KEY)
    /\ stdout' = Append(stdout, Say("updating", JIRA_KEY, <<BRANCH_NAME>>))
    /\ StartCurl
    /\ UNCHANGED <<inputs, outside, JIRA_KEY, exitStatus>>

\* Mutant: a failed delivery is attempted again.
PCReport_Retry ==
    /\ PostCommit /\ pc = "report"
    /\ IF TestEq(Last(RESPONSE), 200)
       THEN /\ stdout' = Append(stdout, Say("success", JIRA_KEY, <<>>))
            /\ Exit(0)
            /\ UNCHANGED <<inputs, outside, JIRA_KEY, curlVars>>
       ELSE /\ stdout' = Append(stdout, Say("failure", JIRA_KEY, <<Last(RESPONSE)>>))
            /\ StartCurl
            /\ UNCHANGED <<inputs, outside, JIRA_KEY, exitStatus>>

\* Lines 36-47.
PCReport ==
    /\ PostCommit /\ pc = "report"
    /\ LET HTTP_CODE == TailN1(RESPONSE)
           RESPONSE_BODY == HeadAllButLast(RESPONSE)
       IN  stdout' =
             IF TestEq(HTTP_CODE, 200)
             THEN Append(stdout, Say("success", JIRA_KEY, <<>>))
             ELSE stdout \o <<Say("failure", JIRA_KEY, <<HTTP_CODE>>),
                              Say("response", <<>>, RESPONSE_BODY)>>
    /\ Exit(0)
    /\ UNCHANGED <<inputs, outside, JIRA_KEY, curlVars>>

\* ------------------------------------------------------------ git-hook.sh

\* Lines 17-21.
GHExtract ==
    /\ ~PostCommit /\ pc = "start"
    /\ stdout' = Append(stdout, Say("banner", <<>>, <<BRANCH_NAME>>))
    /\ JIRA_KEY' = ExtractKey(BRANCH_NAME)
    /\ pc' = "keycheck"
    /\ UNCHANGED <<inputs, outside, curlVars, exitStatus>>

\* Lines 23-28.
GHNoKey ==
    /\ ~PostCommit /\ pc = "keycheck"
    /\ KeyMissing(JIRA_KEY)
    /\ stdout' = stdout \o <<Say("nokey", <<>>, <<BRANCH_NAME>>),
                             Say("hint", <<>>, <<>>),
                             Say("examples", <<>>, <<>>)>>
    /\ Exit(0)
    /\ UNCHANGED <<inputs, outside, JIRA_KEY, curlVars>>

\* Lines 30-36.
GHCallApi ==
    /\ ~PostCommit /\ pc = "keycheck"
    /\ ~KeyMissing(JIRA_KEY)
    /\ stdout' = Append(stdout, Say("found", JIRA_KEY, <<>>))
    /\ StartCurl
    /\ UNCHANGED <<inputs, outside, JIRA_KEY, exitStatus>>

\* [ $? -eq 0 ] of line 39: the exit status of curl.
CurlSucceeded(status) == status = 0

\* Lines 38-47.
GHReport ==
    /\ ~PostCommit /\ pc = "report"
    /\ stdout' =
         IF CurlSucceeded(curlExit)
         THEN stdout \o <<Say("success", JIRA_KEY, <<>>),
                          Say("response", <<>>, RESPONSE)>>
         ELSE stdout \o <<Say("failure", JIRA_KEY, <<>>),
                          Say("server-hint", <<>>, <<>>)>>
    /\ Exit(0)
    /\ UNCHANGED <<inputs, outside, JIRA_KEY, curlVars>>

\* ------------------------------------------------------------------- curl

\* One run of curl -s -X POST, as started by either script.  The status
\* line and the body come from the tracker; whether and when they come is
\* the tracker's choice.

InCurl == pc \in {"connecting", "waiting", "receiving"}

\* The time limit of the phase curl is in: --connect-timeout while
\* connecting, --max-time (which counts from the start) afterwards.
Deadline == IF pc = "connecting" THEN ConnectTimeout ELSE MaxTime

InTime == HasTimeLimits => elapsed < Deadline

\* %{http_code}: the status received, 000 if none was.
HttpCode == IF httpStatus = <<>> THEN <<"0", "0", "0">> ELSE httpStatus

\* What curl has written when it ends: the body, and with
\* -w "\n%{http_code}" (post-commit-hook.sh) a last line holding the code.
CurlOutput(body) == IF PostCommit THEN body \o <<HttpCode>> ELSE body

CurlEnds(status, body) ==
    /\ curlExit' = status
    /\ RESPONSE' = Capture(CurlOutput(body))
    /\ pc' = "report"
    /\ UNCHANGED <<inputs, outside, JIRA_KEY, requests, elapsed, httpStatus, stdout, exitStatus>>

\* A second passes on the clock curl checks its time limits against; a
\* curl that was given no limit reads no clock.
Tick ==
    /\ InCurl /\ HasTimeLimits
    /\ elapsed < Deadline
    /\ elapsed' = elapsed + 1
    /\ UNCHANGED <<inputs, outside, pc, JIRA_KEY, requests, httpStatus, RESPONSE, curlExit,
                   stdout, exitStatus>>

\* The tracker accepts the connection.
CurlConnect ==
    /\ pc = "connecting" /\ InTime
    /\ pc' = "waiting"
    /\ arrived' = Append(arrived, me)
    /\ UNCHANGED <<inputs, history, me, parked, others, JIRA_KEY, curlVars, stdout, exitStatus>>

\* Connection refused, host unreachable: curl exits 7.
CurlRefused ==
    /\ pc = "connecting" /\ InTime
    /\ CurlEnds(7, << <<>> >>)

\* --connect-timeout expires: curl exits 28.
CurlConnectTimeout ==
    /\ pc = "connecting" /\ HasTimeLimits /\ elapsed >= ConnectTimeout
    /\ CurlEnds(28, << <<>> >>)

\* The tracker sends its status line.
ServerStatus ==
    /\ pc = "waiting" /\ InTime
    /\ \E s \in Statuses : httpStatus' = s
    /\ pc' = "receiving"
    /\ UNCHANGED <<inputs, outside, JIRA_KEY, requests, elapsed, RESPONSE, curlExit, stdout,
                   exitStatus>>

\* The tracker completes its response: curl exits 0 whatever the status
\* is (no -f is given).
ServerBody ==
    /\ pc = "receiving" /\ InTime
    /\ \E b \in Bodies : CurlEnds(0, b)

\* The connection breaks after it was made: curl exits 56.
CurlReset ==
    /\ pc \in {"waiting", "receiving"} /\ InTime
    /\ CurlEnds(56, << <<>> >>)

\* --max-time expires: curl exits 28.
CurlMaxTime ==
    /\ pc \in {"waiting", "receiving"} /\ HasTimeLimits /\ elapsed >= MaxTime
    /\ CurlEnds(28, << <<>> >>)

\* ------------------------------------------------------ the specifications

Next ==
    \/ PCSkip
    \/ PCExtract
    \/ PCNoKey
    \/ PCCallApi
    \/ PCReport
    \/ GHExtract
    \/ GHNoKey
    \/ GHCallApi
    \/ GHReport
    \/ Tick
    \/ CurlConnect
    \/ CurlRefused
    \/ CurlConnectTimeout
    \/ ServerStatus
    \/ ServerBody
    \/ CurlReset
    \/ CurlMaxTime

Spec == Init /\ [][Next]_vars

\* What runs without anyone's help: the shell executes the script's next
\* command, time passes, curl's own timers fire, and an attempt to connect
\* is settled one way or the other by the operating system.  The tracker
\* is under no obligation to answer on a connection it accepted.
ScriptStep ==
    \/ PCSkip \/ PCExtract \/ PCNoKey \/ PCCallApi \/ PCReport
    \/ GHExtract \/ GHNoKey \/ GHCallApi \/ GHReport

LiveSpec ==
    /\ Init /\ [][Next]_vars
    /\ WF_vars(ScriptStep)
    /\ WF_vars(Tick)
    /\ WF_vars(CurlConnectTimeout)
    /\ WF_vars(CurlMaxTime)
    /\ WF_vars(CurlConnect \/ CurlRefused)

\* ------------------------------------------------ one invocation after another

\* git runs the hook again, in the same repository state and environment:
\* a new process, which starts with nothing of the one before.
Restart ==
    /\ pc = "done"
    /\ Len(history) + 1 < MaxRuns
    /\ history' = Append(history, requests)
    /\ pc' = "start"
    /\ JIRA_KEY' = <<>>
    /\ requests' = <<>>
    /\ elapsed' = 0
    /\ httpStatus' = <<>>
    /\ RESPONSE' = <<>>
    /\ curlExit' = 0
    /\ stdout' = <<>>
    /\ exitStatus' = <<>>
    /\ UNCHANGED <<inputs, me, parked, arrived, others>>

SeqSpec == Init /\ [][Next \/ Restart]_vars

\* --------------------------------------------------- two invocations at once

\* The variables of the invocation that is running.
Context ==
    [id |-> me, pc |-> pc, JIRA_KEY |-> JIRA_KEY, requests |-> requests,
     elapsed |-> elapsed, httpStatus |-> httpStatus, RESPONSE |-> RESPONSE,
     curlExit |-> curlExit, stdout |-> stdout, exitStatus |-> exitStatus]

\* Mutant: RESPONSE is kept in one place that both invocations use.
Switch_SharedResponse ==
    /\ ~(pc = "start" /\ parked.pc = "start")
    /\ parked.pc # "done"
    /\ parked' = Context
    /\ me' = parked.id
    /\ pc' = parked.pc
    /\ JIRA_KEY' = parked.JIRA_KEY
    /\ requests' = parked.requests
    /\ elapsed' = parked.elapsed
    /\ httpStatus' = parked.httpStatus
    /\ curlExit' = parked.curlExit
    /\ stdout' = parked.stdout
    /\ exitStatus' = parked.exitStatus
    /\ UNCHANGED <<inputs, history, arrived, others, RESPONSE>>

\* The two processes are separate: each has its own shell variables, its
\* own curl and its own output, and the operating system runs now one, now
\* the other.  The second begins once the first has.
Switch ==
    /\ ~(pc = "start" /\ parked.pc = "start")
    /\ parked.pc # "done"
    /\ parked' = Context
    /\ me' = parked.id
    /\ pc' = parked.pc
    /\ JIRA_KEY' = parked.JIRA_KEY
    /\ requests' = parked.requests
    /\ elapsed' = parked.elapsed
    /\ httpStatus' = parked.httpStatus
    /\ RESPONSE' = parked.RESPONSE
    /\ curlExit' = parked.curlExit
    /\ stdout' = parked.stdout
    /\ exitStatus' = parked.exitStatus
    /\ UNCHANGED <<inputs, history, arrived, others>>

\* Two commits on one branch, each running the hook: a branch with a key
\* and one without, in the default environment.
PairBranches ==
    {<<"S", "C", "R", "U", "M", "-", "2", "5">>,
     <<"c", "h", "o", "r", "e", "/", "c", "l", "e", "a", "n", "u", "p">>}

PairInit ==
    /\ Init
    /\ BRANCH_NAME \in PairBranches
    /\ gitOp \in {"none", "am"}
    /\ SCRUM_PROJECT_KEY = <<>>
    /\ SCRUM_API_URL = ""

PairSpec == PairInit /\ [][Next \/ Switch]_vars

\* ------------------------------------------------------------- the claims

Done == pc = "done"
NoCall == requests = <<>> /\ ~InCurl /\ pc # "report"
ExitedWell == Done => exitStatus = <<0>>
KeyFound == ExtractKey(BRANCH_NAME) # <<>>
Reported(m) == \E i \in 1..Len(stdout) : stdout[i].msg = m
Status200 == httpStatus = <<"2", "0", "0">>

\* C1: every invocation of either script that ends, ends with exit status
\* 0, on every path: skipped, no key, delivered with 200, delivered with
\* another status, transport error, timeout.
C1_ExitAlwaysZero ==
    /\ exitStatus \in {<<>>, <<0>>}
    /\ Done => exitStatus = <<0>>

C1_Witness ==
    /\ Done /\ requests # <<>> /\ curlExit = 28 /\ exitStatus = <<0>>

\* C2: on a detached HEAD (branch name "HEAD") neither script makes a
\* network call, and it exits with status 0, whatever the rest of the
\* repository state and the configuration.
C2_DetachedNoCall ==
    BRANCH_NAME = DetachedHead => NoCall /\ ExitedWell

C2_Witness ==
    /\ ~PostCommit /\ BRANCH_NAME = DetachedHead /\ gitOp = "rebase-merge"
    /\ Done /\ requests = <<>> /\ exitStatus = <<0>>

\* C3: post-commit-hook.sh, a merge in progress, a branch name that holds a
\* key: no network call, exit status 0.
C3_MergeNoCall ==
    (PostCommit /\ in_merge /\ KeyFound) => NoCall /\ ExitedWell

C3_Witness ==
    /\ PostCommit /\ in_merge /\ KeyFound /\ gitOp = "none"
    /\ BRANCH_NAME # DetachedHead
    /\ Done /\ requests = <<>> /\ exitStatus = <<0>>

\* C4: post-commit-hook.sh, a rebase of any kind in progress, a branch name
\* that holds a key: no network call, exit status 0.
C4_RebaseNoCall ==
    (PostCommit /\ in_rebase /\ KeyFound) => NoCall /\ ExitedWell

\* C5: git-hook.sh sends a notification only when neither a merge nor a
\* rebase is in progress.
C5_PushEligibility ==
    (~PostCommit /\ (in_merge \/ in_rebase)) => NoCall

\* C6: when the extraction finds no key in the branch name, neither script
\* makes a network call, and it exits with status 0.
C6_NoKeyNoCall ==
    ~KeyFound => NoCall /\ ExitedWell

C6_Witness ==
    /\ PostCommit /\ ~SkipState(BRANCH_NAME)
    /\ BRANCH_NAME = <<"c", "h", "o", "r", "e", "/", "c", "l", "e", "a", "n", "u", "p">>
    /\ Done /\ requests = <<>> /\ exitStatus = <<0>>

\* The states no reading of "eligible" excludes: on a branch, and git in the
\* middle of nothing (no merge, no rebase, no git am).
Eligible == BRANCH_NAME # DetachedHead /\ ~in_merge /\ gitOp = "none"

\* C7: with a key found in an eligible state there is exactly one delivery
\* attempt: never a second one, whatever the first one's outcome, and
\* never none once the script is past its key test.
C7_ExactlyOneAttempt ==
    (Eligible /\ KeyFound) =>
        /\ Len(requests) <= 1
        /\ pc \notin {"start", "keycheck"} => Len(requests) = 1

C7_Witness ==
    /\ PostCommit /\ Eligible /\ KeyFound
    /\ Done /\ Len(requests) = 1 /\ Reported("failure")

\* C8: post-commit-hook.sh reports success exactly when the status
\* received is 200; any other status, and a delivery in which no status
\* is received (refused, timed out, broken), is reported as a failure.
C8_SuccessIff200 ==
    (PostCommit /\ Done /\ requests # <<>>) =>
        /\ Reported("success") <=> Status200
        /\ Reported("failure") <=> ~Status200

C8_Witness ==
    /\ PostCommit /\ Done /\ httpStatus = <<>> /\ curlExit = 28
    /\ elapsed = MaxTime /\ Reported("failure") /\ ~Reported("success")

\* C9: git-hook.sh reports a response whose status is not 200 as a
\* failure, and reports success only for a 200.
C9_PushSuccessIff200 ==
    (~PostCommit /\ Done /\ requests # <<>>) =>
        /\ (httpStatus # <<>> /\ ~Status200) => Reported("failure")
        /\ Reported("success") => Status200

\* C10: every invocation of either script terminates, also when the
\* tracker accepts the connection and never answers.
C10_Terminates == <>Done

\* ------------------------------------------------- the claims, C11 to C20

\* Just after the extraction: JIRA_KEY holds what grep printed.
Extracted == pc = "keycheck"

\* A non-empty text of characters of cls.
AllIn(t, cls) == Len(t) >= 1 /\ \A i \in 1..Len(t) : t[i] \in cls

\* t is prefix, "-", digits.
IsPrefixDigits(prefix, t) ==
    /\ Len(t) >= Len(prefix) + 2
    /\ SubSeq(t, 1, Len(prefix)) = prefix
    /\ t[Len(prefix) + 1] = "-"
    /\ AllIn(SubSeq(t, Len(prefix) + 2, Len(t)), Digit)

\* t is a run of uppercase letters, "-", digits.
IsUpperDigits(t) ==
    \E k \in 2..(Len(t) - 1) :
        /\ t[k] = "-"
        /\ AllIn(SubSeq(t, 1, k - 1), Upper)
        /\ AllIn(SubSeq(t, k + 1, Len(t)), Digit)

\* A PREFIX-DIGITS token of the documentation: PREFIX is the configured
\* prefix, taken literally, where the script has one (post-commit-hook.sh),
\* and any run of uppercase letters where it has none (git-hook.sh).
IsKeyToken(t) ==
    IF PostCommit THEN IsPrefixDigits(PROJECT_KEY, t) ELSE IsUpperDigits(t)

Slices(b) == {SubSeq(b, i, j) : i \in 1..Len(b), j \in 1..Len(b)}
ContainsToken(b) == \E t \in Slices(b) : IsKeyToken(t)

\* t occurs in b at a place where no digit follows it.
OccursUnextended(t, b) ==
    \E i \in 1..(Len(b) - Len(t) + 1) :
        /\ SubSeq(b, i, i + Len(t) - 1) = t
        /\ (i + Len(t) <= Len(b)) => b[i + Len(t)] \notin Digit

\* C11: the extractor's result is zero or one key: with several candidate
\* keys in the branch name it is the leftmost one and nothing else.
C11_FirstMatchOnly ==
    Extracted =>
        JIRA_KEY = IF KeyFound THEN <<ExtractKey(BRANCH_NAME)[1]>> ELSE <<>>

\* C12: a key is returned exactly when the branch name holds a PREFIX-DIGITS
\* token anywhere in it, and what is returned is such a token of the branch
\* name.
C12_KeyIffToken ==
    Extracted =>
        /\ JIRA_KEY # <<>> <=> ContainsToken(BRANCH_NAME)
        /\ \A k \in 1..Len(JIRA_KEY) :
              IsKeyToken(JIRA_KEY[k]) /\ JIRA_KEY[k] \in Slices(BRANCH_NAME)

\* C13: every key post-commit-hook.sh returns is the configured prefix
\* itself, "-", and the whole run of digits that follows in the branch name.
C13_LiteralPrefix ==
    (PostCommit /\ Extracted) =>
        \A k \in 1..Len(JIRA_KEY) :
            /\ IsPrefixDigits(PROJECT_KEY, JIRA_KEY[k])
            /\ OccursUnextended(JIRA_KEY[k], BRANCH_NAME)

ABC7Branch == <<"f", "e", "a", "t", "u", "r", "e", "/", "A", "B", "C", "-", "7">>
PrefixUnset == SCRUM_PROJECT_KEY = <<>>

\* C14 as claimed: with no prefix set in the environment, a key is found in
\* every branch name that holds uppercase letters, "-", digits.
C14_UnsetAcceptsAnyUpper ==
    (PrefixUnset /\ Extracted /\ \E t \in Slices(BRANCH_NAME) : IsUpperDigits(t))
        => JIRA_KEY # <<>>

\* C14 as amended: with no prefix set in the environment,
\* post-commit-hook.sh accepts the prefix SCRUM only (feature/ABC-7 yields
\* nothing); git-hook.sh, which reads no such setting, accepts any run of
\* uppercase letters (feature/ABC-7 yields ABC-7).
C14_UnsetPrefix ==
    (PrefixUnset /\ Extracted) =>
        /\ JIRA_KEY # <<>> <=>
              \E t \in Slices(BRANCH_NAME) :
                  IF PostCommit
                  THEN IsPrefixDigits(<<"S", "C", "R", "U", "M">>, t)
                  ELSE IsUpperDigits(t)
        /\ BRANCH_NAME = ABC7Branch =>
              JIRA_KEY = IF PostCommit THEN <<>> ELSE << <<"A", "B", "C", "-", "7">> >>

C14_Witness ==
    /\ PostCommit /\ PrefixUnset /\ Extracted
    /\ BRANCH_NAME = ABC7Branch /\ JIRA_KEY = <<>>

\* C15: in both scripts the delivery target is the API base URL of the
\* environment when it is set, and http://localhost:8000/api/v1 when it is
\* not.
C15_TargetFromEnv ==
    \A i \in 1..Len(requests) :
        requests[i].url[1] =
            IF SCRUM_API_URL # "" THEN SCRUM_API_URL ELSE "http://localhost:8000/api/v1"

\* How a JSON reader reads the document of a request: the text of
\* branch_name runs from after the opening part to the first double quote,
\* and the document is well formed if what follows that text is the rest of
\* the document as the script wrote it.
JsonOpen == "{\"branch_name\": \""
JsonMiddle == "\", \"git_action\": \""
JsonClose == "\"}"
StringEnd(doc) ==
    CHOOSE q \in 2..Len(doc) :
        /\ doc[q] \in {"\"", JsonMiddle}
        /\ \A r \in 2..(q - 1) : doc[r] \notin {"\"", JsonMiddle}
WellFormed(doc) ==
    /\ doc[1] = JsonOpen
    /\ doc[StringEnd(doc)] = JsonMiddle
    /\ Len(doc) = StringEnd(doc) + 2
    /\ doc[Len(doc)] = JsonClose
ReadBranchName(doc) == SubSeq(doc, 2, StringEnd(doc) - 1)
ReadGitAction(doc) == doc[StringEnd(doc) + 1]

\* C16: every request is a POST to {API_BASE_URL}/git-hooks/update-from-branch
\* whose body gives branch_name as the current branch name and git_action
\* as "commit" from the post-commit script and "push" from the push script.
C16_RequestContract ==
    \A i \in 1..Len(requests) :
        /\ requests[i].method = "POST"
        /\ requests[i].url = <<API_BASE_URL, "/git-hooks/update-from-branch">>
        /\ WellFormed(requests[i].body)
        /\ ReadBranchName(requests[i].body) = BRANCH_NAME
        /\ ReadGitAction(requests[i].body) = IF PostCommit THEN "commit" ELSE "push"

\* C16 for the branch names that hold no double quote.
C16_Unquoted ==
    (\A i \in 1..Len(BRANCH_NAME) : BRANCH_NAME[i] # "\"") => C16_RequestContract

\* C17: n invocations one after another on the same eligible branch make n
\* delivery attempts, one each, all with the same request: none is left
\* out or changed because of an earlier one.
C17_EveryRunDelivers ==
    (Eligible /\ KeyFound) =>
        /\ \A i \in 1..Len(history) : history[i] = <<Request>>
        /\ Done => requests = <<Request>>

C17_Witness ==
    /\ Eligible /\ KeyFound /\ Done
    /\ Len(history) = MaxRuns - 1 /\ Len(history) >= 1
    /\ history[1] = requests /\ Len(requests) = 1
    /\ Len(arrived) = 0

\* The variables of invocation i, running or not.
Invocation(i) == IF me = i THEN Context ELSE parked

Says(c, m) == \E k \in 1..Len(c.stdout) : c.stdout[k].msg = m

\* An invocation that has ended made one request, reports what its own
\* curl received, and exited 0.
OwnOutcome(c) ==
    c.pc = "done" =>
        /\ c.exitStatus = <<0>>
        /\ Len(c.requests) = 1
        /\ Says(c, "success") <=> c.httpStatus = <<"2", "0", "0">>
        /\ Says(c, "failure") <=> c.httpStatus # <<"2", "0", "0">>

\* C18: of two overlapping invocations of post-commit-hook.sh on an
\* eligible branch, each reaches its own outcome and exits 0 whatever the
\* other does; the witness is the later one's request reaching the tracker
\* first.
C18_Independent ==
    (PostCommit /\ Eligible /\ KeyFound) =>
        OwnOutcome(Invocation(1)) /\ OwnOutcome(Invocation(2))

C18_Witness ==
    /\ PostCommit /\ Eligible /\ KeyFound
    /\ arrived = <<2, 1>>
    /\ Invocation(1).pc = "done" /\ Invocation(2).pc = "done"
    /\ Says(Invocation(1), "success") /\ Says(Invocation(2), "failure")

\* The order in which the two began.
C18_InOrder ==
    /\ PostCommit /\ Eligible /\ KeyFound
    /\ arrived = <<1, 2>>
    /\ Invocation(1).pc = "done" /\ Invocation(2).pc = "done"

Skipped == Done /\ requests = <<>>
Delivered == Done /\ requests # <<>>
Messages == [k \in 1..Len(stdout) |-> stdout[k].msg]

\* C19 as claimed: a skip, for want of a key or for an ineligible state,
\* prints nothing, in both scripts.
C19_SilentSkip == Skipped => stdout = <<>>

\* C19 as amended: when it skips, post-commit-hook.sh prints nothing;
\* git-hook.sh, which skips only for want of a key, prints its banner and a
\* three-line notice that no key was found.
C19_SkipOutput ==
    Skipped =>
        Messages = IF PostCommit THEN <<>>
                   ELSE <<"banner", "nokey", "hint", "examples">>

C19_Witness ==
    /\ ~PostCommit /\ Skipped /\ Reported("nokey")
    /\ BRANCH_NAME = <<"c", "h", "o", "r", "e", "/", "c", "l", "e", "a", "n", "u", "p">>

\* C20: after a delivery attempt exactly one outcome is reported, never
\* both: a success line with the key, or a failure line with the key and
\* the status code (or transport error), followed by the response body.
C20_OneReport ==
    Delivered =>
        /\ Cardinality({k \in 1..Len(stdout) : stdout[k].msg \in {"success", "failure"}}) = 1
        /\ \A k \in 1..Len(stdout) :
              /\ stdout[k].msg = "success" => stdout[k].key = JIRA_KEY
              /\ stdout[k].msg = "failure" =>
                    /\ stdout[k].key = JIRA_KEY
                    /\ stdout[k].text = <<HttpCode>>
                    /\ k < Len(stdout)
                    /\ stdout[k + 1].msg = "response"

\* C20 for post-commit-hook.sh alone.
C20_PostCommit == PostCommit => C20_OneReport

\* ================================================ front-end REST client

\* part_002 lines 8-14: the response interceptor hands a response on and
\* rejects again with the error it was given.
Intercept(p) ==
    IF p.state = "rejected" THEN Rejected(p.value) ELSE p

EmptyArray == JsonArray(<<>>)
EmptyObject == JsonObject("absent", <<>>)

\* Array.isArray(data) ? data : []
ArrayOrEmpty(data) ==
    IF data.kind = "array" THEN data ELSE EmptyArray

\* if (Array.isArray(data)) return data
\* if (data && Array.isArray(data.items)) return data.items
\* return []
ArrayOrItems(data) ==
    IF data.kind = "array" THEN data
    ELSE IF data.kind = "object" /\ data.items = "array" THEN JsonArray(data.elems)
    ELSE EmptyArray

\* A function of the client: what its .then makes of r.data and what its
\* .catch returns, "none" where it has no .catch.
Fn(name, then, catch) == [name |-> name, then |-> then, catch |-> catch]

VelocityAPI ==
    {Fn("VelocityAPI.getDashboard", "data", "object"),
     Fn("VelocityAPI.getInsights", "data", "array")}

MeetingsAPI ==
    {Fn("MeetingsAPI.list", "array", "array"),
     Fn("MeetingsAPI.create", "data", "null"),
     Fn("MeetingsAPI.get", "data", "null"),
     Fn("MeetingsAPI.addUpdate", "data", "null"),
     Fn("MeetingsAPI.summarize", "data", "null"),
     Fn("MeetingsAPI.actionItems", "array", "array")}

JiraAPI ==
    {Fn("JiraAPI.listTickets", "items", "none"),
     Fn("JiraAPI.getTicket", "data", "null"),
     Fn("JiraAPI.createTicket", "data", "null"),
     Fn("JiraAPI.updateStatus", "data", "null"),
     Fn("JiraAPI.addComment", "data", "null"),
     Fn("JiraAPI.createSubtask", "data", "null"),
     Fn("JiraAPI.projects", "array", "array")}

GitAPI ==
    {Fn("GitAPI.dbCommits", "items", "array"),
     Fn("GitAPI.dbPullRequests", "items", "array")}

ChatsAPI ==
    {Fn("ChatsAPI.help", "data", "null"),
     Fn("ChatsAPI.messages", "array", "array"),
     Fn("ChatsAPI.sendMessage", "data", "null"),
     Fn("ChatsAPI.processBot", "data", "null")}

ApiFunctions == VelocityAPI \cup MeetingsAPI \cup JiraAPI \cup GitAPI \cup ChatsAPI

FnNamed(name) == CHOOSE f \in ApiFunctions : f.name = name

OnFulfilled(f, data) ==
    CASE f.then = "data" -> data
      [] f.then = "array" -> ArrayOrEmpty(data)
      [] f.then = "items" -> ArrayOrItems(data)

Fallback(f) ==
    CASE f.catch = "object" -> EmptyObject
      [] f.catch = "array" -> EmptyArray
      [] f.catch = "null" -> JsonNull

\* api.get(...).then(...).catch(...): the promise the function returns, given
\* the promise of axios.
Chain(f, p) ==
    LET afterThen == IF p.state = "fulfilled"
                     THEN Fulfilled(OnFulfilled(f, p.value))
                     ELSE p
    IN IF f.catch # "none" /\ afterThen.state = "rejected"
       THEN Fulfilled(Fallback(f))
       ELSE afterThen

\* Bodies a server may answer with.
ResponseData ==
    {JsonNull, EmptyArray, JsonArray(<<"a">>), EmptyObject,
     JsonObject("array", <<"a">>), JsonObject("other", <<>>), JsonString}

\* A page calls a function of the client.
ApiInvoke ==
    /\ apiCall.stage = "idle"
    /\ \E f \in ApiFunctions :
          apiCall' = [fn |-> f.name, stage |-> "pending", http |-> "none",
                      promise |-> Pending]
    /\ UNCHANGED <<inputs, pc, JIRA_KEY, curlVars, stdout, exitStatus,
                   history, me, parked, arrived, chat, jira, installer>>

\* The server answers 2xx.
ApiRespond ==
    /\ apiCall.stage = "pending"
    /\ \E data \in ResponseData :
          apiCall' = [apiCall EXCEPT !.stage = "responded", !.http = "ok",
                                     !.promise = Intercept(Fulfilled(data))]
    /\ UNCHANGED <<inputs, pc, JIRA_KEY, curlVars, stdout, exitStatus,
                   history, me, parked, arrived, chat, jira, installer>>

\* No answer, or an answer outside 2xx: axios rejects.
ApiFail ==
    /\ apiCall.stage = "pending"
    /\ apiCall' = [apiCall EXCEPT !.stage = "responded", !.http = "error",
                                  !.promise = Intercept(Rejected(AxiosError))]
    /\ UNCHANGED <<inputs, pc, JIRA_KEY, curlVars, stdout, exitStatus,
                   history, me, parked, arrived, chat, jira, installer>>

\* The function's own .then and .catch run.
ApiSettle ==
    /\ apiCall.stage = "responded"
    /\ apiCall' = [apiCall EXCEPT !.stage = "settled",
                                  !.promise = Chain(FnNamed(apiCall.fn), apiCall.promise)]
    /\ UNCHANGED <<inputs, pc, JIRA_KEY, curlVars, stdout, exitStatus,
                   history, me, parked, arrived, chat, jira, installer>>

\* The caller has taken the result.
ApiReturn ==
    /\ apiCall.stage = "settled"
    /\ apiCall' = IdleCall
    /\ UNCHANGED <<inputs, pc, JIRA_KEY, curlVars, stdout, exitStatus,
                   history, me, parked, arrived, chat, jira, installer>>

\* The hook scripts, not running.
HooksAtRest ==
    /\ script = "post-commit-hook.sh"
    /\ BRANCH_NAME = DetachedHead
    /\ MERGE_HEAD = FALSE
    /\ gitOp = "none"
    /\ SCRUM_PROJECT_KEY = <<>>
    /\ SCRUM_API_URL = ""
    /\ pc = "start"
    /\ JIRA_KEY = <<>>
    /\ requests = <<>>
    /\ elapsed = 0
    /\ httpStatus = <<>>
    /\ RESPONSE = <<>>
    /\ curlExit = 0
    /\ stdout = <<>>
    /\ exitStatus = <<>>
    /\ history = <<>>
    /\ me = 1
    /\ parked = FreshContext(2)
    /\ arrived = <<>>

ApiInit ==
    /\ HooksAtRest
    /\ ClientIdle
    /\ ChatMounted
    /\ searchParams = <<>>
    /\ JiraMounted
    /\ fs = PlainRepository
    /\ InstallerAtStart

ApiNext == ApiInvoke \/ ApiRespond \/ ApiFail \/ ApiSettle \/ ApiReturn

ApiSpec == ApiInit /\ [][ApiNext]_vars

\* -------------------------------------------------------------- claim C21

EmptyFallbacks == {EmptyArray, EmptyObject, JsonNull}

\* C21: every function of the REST client returns a promise that is never
\* rejected, and that is fulfilled with an empty list, an empty object or
\* null when the HTTP request failed.
C21_NeverRejects ==
    apiCall.stage = "settled" =>
        /\ apiCall.promise.state = "fulfilled"
        /\ apiCall.http = "error" => apiCall.promise.value \in EmptyFallbacks

\* C21 for every function but JiraAPI.listTickets.
C21_ExceptListTickets ==
    apiCall.fn # "JiraAPI.listTickets" => C21_NeverRejects

\* ======================================================== the chat page

IsSpace(c) == c \in {" ", "\t"}

RECURSIVE TrimStart(_)
TrimStart(t) ==
    IF t # <<>> /\ IsSpace(Head(t)) THEN TrimStart(Tail(t)) ELSE t

RECURSIVE TrimEnd(_)
TrimEnd(t) ==
    IF t # <<>> /\ IsSpace(Last(t)) THEN TrimEnd(Front(t)) ELSE t

\* text.trim()
Trim(t) == TrimEnd(TrimStart(t))

\* What the user may type into the message box.
ChatTexts ==
    {<<>>, <<" ">>, <<" ", "\t">>, <<"h", "i">>, <<" ", "h", "i", " ">>}

\* Lines 130-134, each command standing as one character; two of the five.
QuickCommands == {<<"/help">>, <<"/create-task">>}

BotReplies == {JsonNull, JsonObject("other", <<>>)}

\* Line 14: mutationFn, the message being the text of the render.
ProcessBot(message) ==
    [payload |-> [message |-> message, sender_id |-> "user1",
                  sender_name |-> "User", channel_id |-> "general"],
     stage |-> "pending", http |-> "none", promise |-> Pending]

\* Lines 25-29.
handleSend ==
    IF Trim(text) = <<>>
    THEN UNCHANGED chat
    ELSE /\ isTyping' = TRUE
         /\ sends' = Append(sends, ProcessBot(text))
         /\ UNCHANGED <<text, lastSend>>

notChat == <<inputs, pc, JIRA_KEY, curlVars, stdout, exitStatus,
             history, me, parked, arrived, apiCall, jira, installer>>

\* Lines 107-114: the user edits the message box, which is disabled while
\* isTyping.
ChatType ==
    /\ ~isTyping
    /\ \E t \in ChatTexts : text' = t
    /\ UNCHANGED <<isTyping, sends, lastSend, notChat>>

\* Lines 31-36 and 111: Enter in the message box, which takes no key while
\* it is disabled.
ChatEnter ==
    /\ ~isTyping
    /\ handleSend
    /\ UNCHANGED notChat

\* Mutant: the Send button is disabled only for want of text.
ChatClickSend_WhileTyping ==
    /\ Trim(text) # <<>>
    /\ handleSend
    /\ UNCHANGED notChat

\* Lines 115-121: the Send button, disabled={!text.trim() || isTyping}.
ChatClickSend ==
    /\ ~(Trim(text) = <<>> \/ isTyping)
    /\ handleSend
    /\ UNCHANGED notChat

\* Lines 131-137: a quick-command button, never disabled.
ChatQuick ==
    /\ \E cmd \in QuickCommands : text' = cmd
    /\ UNCHANGED <<isTyping, sends, lastSend, notChat>>

Without(seq, i) == SubSeq(seq, 1, i - 1) \o SubSeq(seq, i + 1, Len(seq))

\* The server answers a bot request 2xx; processBot's .then and .catch run.
ChatRespond ==
    /\ \E i \in 1..Len(sends), data \in BotReplies :
          /\ sends[i].stage = "pending"
          /\ sends' = [sends EXCEPT ![i] =
                [@ EXCEPT !.stage = "settled", !.http = "ok",
                          !.promise = Chain(FnNamed("ChatsAPI.processBot"),
                                            Intercept(Fulfilled(data)))]]
    /\ UNCHANGED <<text, isTyping, lastSend, notChat>>

\* The bot request fails; processBot's .catch runs.
ChatFail ==
    /\ \E i \in 1..Len(sends) :
          /\ sends[i].stage = "pending"
          /\ sends' = [sends EXCEPT ![i] =
                [@ EXCEPT !.stage = "settled", !.http = "error",
                          !.promise = Chain(FnNamed("ChatsAPI.processBot"),
                                            Intercept(Rejected(AxiosError)))]]
    /\ UNCHANGED <<text, isTyping, lastSend, notChat>>

\* Mutant: onSuccess resets isTyping only when the bot returned something.
ChatCallback_KeepTyping ==
    /\ \E i \in 1..Len(sends) :
          /\ sends[i].stage = "settled"
          /\ IF sends[i].promise.state = "fulfilled"
             THEN /\ text' = <<>>
                  /\ isTyping' = (isTyping /\ sends[i].promise.value = JsonNull)
             ELSE /\ isTyping' = FALSE
                  /\ UNCHANGED text
          /\ sends' = Without(sends, i)
          /\ lastSend' = [http |-> sends[i].http, before |-> text, after |-> text']
    /\ UNCHANGED notChat

\* Lines 15-22: onSuccess when the promise of mutationFn is fulfilled,
\* onError when it is rejected.
ChatCallback ==
    /\ \E i \in 1..Len(sends) :
          /\ sends[i].stage = "settled"
          /\ IF sends[i].promise.state = "fulfilled"
             THEN /\ text' = <<>>
                  /\ isTyping' = FALSE
             ELSE /\ isTyping' = FALSE
                  /\ UNCHANGED text
          /\ sends' = Without(sends, i)
          /\ lastSend' = [http |-> sends[i].http, before |-> text, after |-> text']
    /\ UNCHANGED notChat

ChatInit ==
    /\ HooksAtRest
    /\ ClientIdle
    /\ ChatMounted
    /\ searchParams = <<>>
    /\ JiraMounted
    /\ fs = PlainRepository
    /\ InstallerAtStart

ChatNext ==
    \/ ChatType
    \/ ChatEnter
    \/ ChatClickSend
    \/ ChatQuick
    \/ ChatRespond
    \/ ChatFail
    \/ ChatCallback

ChatSpec == ChatInit /\ [][ChatNext]_vars

\* The callbacks of a settled mutation run.
ChatLiveSpec == ChatSpec /\ WF_vars(ChatCallback)

\* ------------------------------------------------------ claims C22 to C24

Settled(reqs) == \E i \in 1..Len(reqs) : reqs[i].stage = "settled"

\* C22: at most one bot request is in flight at any time, isTyping is true
\* while it is, and no request carries an empty or whitespace-only message.
C22_OneInFlight ==
    /\ Len(sends) <= 1
    /\ sends # <<>> => isTyping
    /\ \A i \in 1..Len(sends) : Trim(sends[i].payload.message) # <<>>

\* A quick command was clicked while a request with another message was in
\* flight.
C22_Witness ==
    /\ Len(sends) = 1
    /\ sends[1].payload.message = <<" ", "h", "i", " ">>
    /\ text = <<"/help">>
    /\ isTyping

\* C23: once a bot request has settled, with success or failure, isTyping
\* becomes false.
C23_TypingEnds == Settled(sends) ~> ~isTyping

\* A failed request has settled and isTyping is false again.
C23_Witness ==
    /\ lastSend.http = "error"
    /\ sends = <<>>
    /\ ~isTyping

\* C24: when the bot request failed, the callback leaves the text as it
\* was; the text is cleared only when the server accepted the message.
C24_FailureKeepsText ==
    lastSend.http = "error" => lastSend.after = lastSend.before

\* ================================================ the filtered Jira page

\* Query strings the page may be opened with.
JiraUrls ==
    {<<>>,
     <<<<"limit", "0">>>>,
     <<<<"limit", "10">>>>,
     <<<<"limit", "abc">>>>,
     <<<<"project_key", "SCRUM">>, <<"utm", "x">>>>,
     <<<<"status", "Done">>, <<"limit", "10">>>>}

ProjectTexts == {"", "SCRUM"}
AssigneeTexts == {"", "alice"}
\* Lines 159-163, three of the five options.
StatusOptions == {"", "To Do", "Done"}

One(name, value) == <<<<name, value>>>>

\* Lines 35-39: the parameters applyFilters hands to setSearchParams.
UrlParams(newFilters) ==
    (IF newFilters.project_key # "" THEN One("project_key", newFilters.project_key) ELSE <<>>)
    \o (IF newFilters.assignee # "" THEN One("assignee", newFilters.assignee) ELSE <<>>)
    \o (IF newFilters.status # "" THEN One("status", newFilters.status) ELSE <<>>)
    \o (IF Truthy(newFilters.limit) /\ newFilters.limit # Num(25)
        THEN One("limit", StringOf(newFilters.limit)) ELSE <<>>)

notJira == <<inputs, pc, JIRA_KEY, curlVars, stdout, exitStatus,
             history, me, parked, arrived, apiCall, chat, installer>>
createForm == <<title, description, selectedTicket, creates, lastCreate>>
filterForm == <<searchParams, appliedFilters, filterProject, filterAssignee,
                filterStatus, lastFilter>>

\* Lines 142-164: the three filter inputs.
JiraEditProject ==
    /\ \E v \in ProjectTexts : filterProject' = v
    /\ lastFilter' = "edit"
    /\ UNCHANGED <<searchParams, appliedFilters, filterAssignee, filterStatus,
                   createForm, notJira>>

JiraEditAssignee ==
    /\ \E v \in AssigneeTexts : filterAssignee' = v
    /\ lastFilter' = "edit"
    /\ UNCHANGED <<searchParams, appliedFilters, filterProject, filterStatus,
                   createForm, notJira>>

JiraEditStatus ==
    /\ \E v \in StatusOptions : filterStatus' = v
    /\ lastFilter' = "edit"
    /\ UNCHANGED <<searchParams, appliedFilters, filterProject, filterAssignee,
                   createForm, notJira>>

\* Mutant: the URL keeps the parameters it had.
applyFilters_KeepUrl ==
    LET newFilters == [project_key |-> filterProject,
                       assignee |-> filterAssignee,
                       status |-> filterStatus,
                       limit |-> appliedFilters.limit]
    IN /\ appliedFilters' = newFilters
       /\ searchParams' = searchParams
       /\ lastFilter' = "apply"
       /\ UNCHANGED <<filterProject, filterAssignee, filterStatus, createForm, notJira>>

\* Lines 25-41.
applyFilters ==
    LET newFilters == [project_key |-> filterProject,
                       assignee |-> filterAssignee,
                       status |-> filterStatus,
                       limit |-> appliedFilters.limit]
    IN /\ appliedFilters' = newFilters
       /\ searchParams' = UrlParams(newFilters)
       /\ lastFilter' = "apply"
       /\ UNCHANGED <<filterProject, filterAssignee, filterStatus, createForm, notJira>>

\* Lines 173-184: Clear Filters.
JiraClear ==
    /\ filterProject' = ""
    /\ filterAssignee' = ""
    /\ filterStatus' = ""
    /\ appliedFilters' = [project_key |-> "", assignee |-> "", status |-> "",
                          limit |-> Num(25)]
    /\ searchParams' = <<>>
    /\ lastFilter' = "clear"
    /\ UNCHANGED <<createForm, notJira>>

TitleTexts == {<<>>, <<" ">>, <<"New Task">>, <<"F", "i", "x">>}
\* A ticket of the list and the ticket the server creates.
ListedTicket == Ticket("SCRUM-1")
CreatedTicket == Ticket("SCRUM-2")

\* Lines 98-103; the description has no input on the page, its setter is
\* given no caller.
JiraEditTitle ==
    /\ \E t \in TitleTexts : title' = t
    /\ UNCHANGED <<description, selectedTicket, creates, lastCreate, filterForm, notJira>>

\* Line 195: a ticket of the list is clicked.
JiraSelect ==
    /\ selectedTicket' = ListedTicket
    /\ UNCHANGED <<title, description, creates, lastCreate, filterForm, notJira>>

\* Line 59: mutationFn with the form of the render.
CreateTicket ==
    [payload |-> [title |-> title, description |-> description],
     stage |-> "pending", http |-> "none", promise |-> Pending]

\* Lines 124-130: Create Ticket, disabled={!title.trim()}.
JiraClickCreate ==
    /\ Trim(title) # <<>>
    /\ Len(creates) < MaxInFlight
    /\ creates' = Append(creates, CreateTicket)
    /\ UNCHANGED <<title, description, selectedTicket, lastCreate, filterForm, notJira>>

\* The server creates the ticket and answers with it.
JiraCreateRespond ==
    /\ \E i \in 1..Len(creates) :
          /\ creates[i].stage = "pending"
          /\ creates' = [creates EXCEPT ![i] =
                [@ EXCEPT !.stage = "settled", !.http = "ok",
                          !.promise = Chain(FnNamed("JiraAPI.createTicket"),
                                            Intercept(Fulfilled(CreatedTicket)))]]
    /\ UNCHANGED <<title, description, selectedTicket, lastCreate, filterForm, notJira>>

\* The request fails; createTicket's .catch runs.
JiraCreateFail ==
    /\ \E i \in 1..Len(creates) :
          /\ creates[i].stage = "pending"
          /\ creates' = [creates EXCEPT ![i] =
                [@ EXCEPT !.stage = "settled", !.http = "error",
                          !.promise = Chain(FnNamed("JiraAPI.createTicket"),
                                            Intercept(Rejected(AxiosError)))]]
    /\ UNCHANGED <<title, description, selectedTicket, lastCreate, filterForm, notJira>>

\* Lines 60-66: onSuccess(newTicket) when the promise of mutationFn is
\* fulfilled; there is no onError.
JiraCreateCallback ==
    /\ \E i \in 1..Len(creates) :
          /\ creates[i].stage = "settled"
          /\ IF creates[i].promise.state = "fulfilled"
             THEN /\ selectedTicket' = creates[i].promise.value
                  /\ title' = <<"New Task">>
                  /\ description' = ""
             ELSE UNCHANGED <<selectedTicket, title, description>>
          /\ creates' = Without(creates, i)
          /\ lastCreate' = [http |-> creates[i].http,
                            before |-> <<title, description, selectedTicket>>,
                            after |-> <<title', description', selectedTicket'>>]
    /\ UNCHANGED <<filterForm, notJira>>

\* The page opened with any of the query strings.
JiraInit ==
    /\ HooksAtRest
    /\ ClientIdle
    /\ ChatMounted
    /\ searchParams \in JiraUrls
    /\ JiraMounted
    /\ fs = PlainRepository
    /\ InstallerAtStart

\* The filters of the page.
JiraFilterNext ==
    \/ JiraEditProject
    \/ JiraEditAssignee
    \/ JiraEditStatus
    \/ applyFilters
    \/ JiraClear

JiraFilterSpec == JiraInit /\ [][JiraFilterNext]_vars

\* The create form and the ticket list of the page.
JiraCreateNext ==
    \/ JiraEditTitle
    \/ JiraSelect
    \/ JiraClickCreate
    \/ JiraCreateRespond
    \/ JiraCreateFail
    \/ JiraCreateCallback

JiraCreateSpec == JiraInit /\ [][JiraCreateNext]_vars

\* ------------------------------------------------------ claims C25 and C26

Params(query) == {query[i] : i \in 1..Len(query)}

\* The parameters the claim names for the three text filters.
TextParams(f) ==
    {<<name, f[name]>> : name \in {n \in {"project_key", "assignee", "status"} : f[n] # ""}}

Ended == lastFilter \in {"apply", "clear"}

AfterClear ==
    lastFilter = "clear" =>
        /\ appliedFilters = [project_key |-> "", assignee |-> "", status |-> "",
                             limit |-> Num(25)]
        /\ filterProject = "" /\ filterAssignee = "" /\ filterStatus = ""
        /\ searchParams = <<>>

\* C25: after an Apply or a Clear the query string holds one parameter for
\* each non-empty text filter, the limit exactly when it differs from 25,
\* and nothing else; after a Clear filters, form and query string are empty.
C25_CanonicalUrl ==
    /\ Ended =>
          /\ Len(searchParams) = Cardinality(Params(searchParams))
          /\ Params(searchParams) =
                TextParams(appliedFilters) \cup
                (IF appliedFilters.limit # Num(25)
                 THEN {<<"limit", StringOf(appliedFilters.limit)>>} ELSE {})
    /\ AfterClear

\* C25 as amended: the limit is in the query string exactly when it is a
\* number other than 0 and 25.
C25_CanonicalUrlNonZero ==
    /\ Ended =>
          /\ Len(searchParams) = Cardinality(Params(searchParams))
          /\ Params(searchParams) =
                TextParams(appliedFilters) \cup
                (IF ~appliedFilters.limit.nan /\ appliedFilters.limit.n \notin {0, 25}
                 THEN {<<"limit", StringOf(appliedFilters.limit)>>} ELSE {})
    /\ AfterClear

\* The page was opened with a status and a limit of 10, an assignee was
\* typed and the filters applied.
C25_Witness ==
    /\ lastFilter = "apply"
    /\ appliedFilters.limit = Num(10)
    /\ appliedFilters.assignee = "alice"
    /\ searchParams = <<<<"assignee", "alice">>, <<"status", "Done">>, <<"limit", "10">>>>

\* C26: when the creation failed, the callback leaves title, description
\* and selected ticket as they were; when a ticket was created, the form is
\* reset and the new ticket selected.
C26_FailureKeepsForm ==
    /\ lastCreate.http = "error" => lastCreate.after = lastCreate.before
    /\ lastCreate.http = "ok" => lastCreate.after = <<<<"New Task">>, "", CreatedTicket>>

\* C26 for a created ticket alone.
C26_CreatedResets ==
    lastCreate.http = "ok" => lastCreate.after = <<<<"New Task">>, "", CreatedTicket>>

\* ===================================================== setup-git-hooks.sh

\* The files the installer may meet.  dotGit: .git is absent, a file (a
\* linked worktree) or a directory; hooks: .git/hooks likewise; hook and
\* mode: what .git/hooks/post-commit is (absent, an older hook, a
\* directory) and its mode; owned: it is the user's own; source:
\* post-commit-hook.sh is in the current directory; writable: the user may
\* write below .git.
Repositories ==
    {r \in [dotGit : {"absent", "file", "dir"}, hooks : {"absent", "file", "dir"},
            hook : {"absent", "old", "dir"}, mode : {"none", "plain", "exec"},
            owned : BOOLEAN, source : BOOLEAN, writable : BOOLEAN] :
        /\ r.dotGit # "dir" => r.hooks = "absent"
        /\ r.hooks # "dir" => r.hook = "absent"
        /\ r.hook = "absent" <=> r.mode = "none"
        /\ r.hook = "absent" => r.owned
        /\ r.hook = "dir" => r.mode = "exec"}

notInstaller == <<inputs, pc, JIRA_KEY, curlVars, stdout, exitStatus,
                  history, me, parked, arrived, apiCall, chat, jira>>

\* Line 5, set -e: a command that fails, having written its complaint, ends
\* the script with the command's status, which is 1 for mkdir, cp and chmod.
Failed(command, next) ==
    /\ setupPc' = "done"
    /\ setupOut' = Append(setupOut, <<"stderr", command>>)
    /\ setupExit' = <<1>>

Succeeded(next) ==
    /\ setupPc' = next
    /\ UNCHANGED <<setupOut, setupExit>>

\* Line 7.
SetupBanner ==
    /\ setupPc = "start"
    /\ setupPc' = "check"
    /\ setupOut' = Append(setupOut, <<"stdout", "setting up">>)
    /\ UNCHANGED <<fs, fs0, setupExit, notInstaller>>

\* Lines 10-13.
SetupNoRepository ==
    /\ setupPc = "check"
    /\ fs.dotGit # "dir"
    /\ setupOut' = Append(setupOut, <<"stdout", "error">>)
    /\ setupPc' = "done"
    /\ setupExit' = <<1>>
    /\ UNCHANGED <<fs, fs0, notInstaller>>

\* Line 16: mkdir -p .git/hooks.
SetupMkdir ==
    /\ setupPc = "check"
    /\ fs.dotGit = "dir"
    /\ IF fs.hooks = "dir"
       THEN Succeeded("cp") /\ UNCHANGED fs
       ELSE IF fs.hooks = "absent" /\ fs.writable
       THEN Succeeded("cp") /\ fs' = [fs EXCEPT !.hooks = "dir"]
       ELSE Failed("mkdir", "cp") /\ UNCHANGED fs
    /\ UNCHANGED <<fs0, notInstaller>>

\* Line 19: cp post-commit-hook.sh .git/hooks/post-commit.  A new file is
\* the user's own and has the mode of its source, a file that was there
\* keeps its owner and mode, and into a directory of that name cp puts
\* the file under its own name, post-commit staying a directory.
SetupCp ==
    /\ setupPc = "cp"
    /\ IF fs.source /\ fs.writable
       THEN /\ Succeeded("chmod")
            /\ \E m \in {"plain", "exec"} :
                  fs' = [fs EXCEPT !.hook = IF @ = "dir" THEN "dir with copy"
                                                        ELSE "copied",
                                   !.mode = IF fs.hook = "absent" THEN m ELSE @]
       ELSE Failed("cp", "chmod") /\ UNCHANGED fs
    /\ UNCHANGED <<fs0, notInstaller>>

\* Line 22: chmod +x .git/hooks/post-commit.
SetupChmod ==
    /\ setupPc = "chmod"
    /\ IF fs.hook # "absent" /\ fs.owned
       THEN Succeeded("report") /\ fs' = [fs EXCEPT !.mode = "exec"]
       ELSE Failed("chmod", "report") /\ UNCHANGED fs
    /\ UNCHANGED <<fs0, notInstaller>>

\* Lines 24-37.
SetupReport ==
    /\ setupPc = "report"
    /\ setupOut' = setupOut \o <<<<"stdout", "success">>, <<"stdout", "instructions">>>>
    /\ setupPc' = "done"
    /\ setupExit' = <<0>>
    /\ UNCHANGED <<fs, fs0, notInstaller>>

SetupInit ==
    /\ HooksAtRest
    /\ ClientIdle
    /\ ChatMounted
    /\ searchParams = <<>>
    /\ JiraMounted
    /\ fs \in Repositories
    /\ InstallerAtStart

SetupNext ==
    \/ SetupBanner
    \/ SetupNoRepository
    \/ SetupMkdir
    \/ SetupCp
    \/ SetupChmod
    \/ SetupReport

SetupSpec == SetupInit /\ [][SetupNext]_vars

\* -------------------------------------------------------------- claim C27

Printed(line) == \E i \in 1..Len(setupOut) : setupOut[i] = line
Complained == \E i \in 1..Len(setupOut) : setupOut[i][1] = "stderr"
Installed == fs.hook = "copied" /\ fs.mode = "exec"

\* C27: without a .git directory the installer ends with status 1 and the
\* files are as they were; the success message is printed only once the
\* hook has been copied and made executable; and a command that failed is
\* followed by a non-zero exit and no success message.
C27_InstallOrAbort ==
    /\ fs0.dotGit # "dir" =>
          /\ fs = fs0
          /\ setupPc = "done" => setupExit = <<1>>
    /\ Printed(<<"stdout", "success">>) => Installed
    /\ Complained =>
          /\ setupPc = "done"
          /\ setupExit # <<>> /\ setupExit # <<0>>
          /\ ~Printed(<<"stdout", "success">>)

\* C27 where .git/hooks/post-commit is not a directory beforehand.
C27_NoDirectory == fs0.hook # "dir" => C27_InstallOrAbort

====
